---- MODULE Spec2Model ----
(***************************************************************************)
(* Model of src/main.rs: the maze generator (Maze::generate_maze), the     *)
(* solver (Maze::solve_maze) and the renderer (Display), run in the order  *)
(* of main().                                                              *)
(*                                                                         *)
(* A Position / Size is a pair <<c0, c1>>: field .0 is the column (x) and  *)
(* field .1 the row (y).  usize arithmetic is modelled over the integers:  *)
(* a coordinate of -1 stands for the wrapped value usize::MAX that a       *)
(* release build produces on "0 - 1" (a debug build panics instead, which  *)
(* the steps model as an abort).  The two agree on every comparison the    *)
(* code of the maze makes on such a value (equality, membership, array     *)
(* indexing out of range).                                                 *)
(***************************************************************************)
EXTENDS Integers, Sequences, FiniteSets, TLC

\* Bounds of the model: the sizes the command line may pass, by extent and by
\* number of cells.
MaxW == 4
MaxH == 3
MaxCells == 12

\* The largest coordinate of a position handed to a function of the renderer.
MaxCoord == 3

\* The largest coordinate and the largest length of a path handed to draw_path.
MaxPathCoord == 2

MaxPathLen == 3

Sizes == {sz \in (1..MaxW) \X (1..MaxH) : sz[1] * sz[2] <= MaxCells}

\* Characters of the canvas (lines 11-13).
BLOCK_CHAR == "#"
POINT_CHAR == "."
EMPTY_CHAR == " "

VARIABLES
    size,        \* Maze.size
    tiles,       \* Maze.tiles : position -> Tile
    pc,          \* position of main(): the call it is in
    explored,    \* local `explored` of generate_maze / solve_maze
    stack,       \* local `stack` of generate_maze
    currentpos,  \* local `currentpos` of generate_maze / solve_maze
    path,        \* local `path` of solve_maze
    popped,      \* local `popped` of solve_maze
    result,      \* value returned by solve_maze
    display,     \* the Display of main()
    err,         \* why the process aborted ("none" while it runs)
    calls,       \* the Position::translate calls <<pos, direction>> of the last step
    input,       \* arguments of a function that is called on its own ("none" in main)
    output       \* what that call returned ("none" before it returns)

vars == <<size, tiles, pc, explored, stack, currentpos, path, popped, result,
          display, err, calls, input, output>>

----------------------------------------------------------------------------
\* Direction (lines 220-251)

\* Direction::iter(): the variants in declaration order.
DirectionIter == <<"North", "East", "South", "West">>

Direction == {"North", "East", "South", "West"}

get_axis(d) == IF d \in {"East", "West"} THEN 0 ELSE 1

\* get_opposite with a slip in the East arm.
get_opposite_slip(d) ==
    CASE d = "North" -> "South"
      [] d = "East"  -> "East"
      [] d = "South" -> "North"
      [] d = "West"  -> "East"

get_opposite(d) ==
    CASE d = "North" -> "South"
      [] d = "East"  -> "West"
      [] d = "South" -> "North"
      [] d = "West"  -> "East"

get_perpendiculars(d) ==
    IF get_axis(d) = 0 THEN <<"North", "South">> ELSE <<"East", "West">>

----------------------------------------------------------------------------
\* Position, Size (lines 253-308)

Position_new == <<0, 0>>

translate(pos, d) ==
    CASE d = "North" -> <<pos[1], pos[2] - 1>>
      [] d = "East"  -> <<pos[1] + 1, pos[2]>>
      [] d = "South" -> <<pos[1], pos[2] + 1>>
      [] d = "West"  -> <<pos[1] - 1, pos[2]>>

\* A call translate(pos, d) that subtracts 1 from a zero coordinate.
Underflows(call) ==
    \/ call[2] = "North" /\ call[1][2] = 0
    \/ call[2] = "West"  /\ call[1][1] = 0

\* get_max_pos that returns the size itself.
get_max_pos_size(sz) == <<sz[1], sz[2]>>

get_max_pos(sz) == <<sz[1] - 1, sz[2] - 1>>

----------------------------------------------------------------------------
\* Tile (lines 15-55)

Tile_new(walled) == [up |-> walled, right |-> walled, down |-> walled, left |-> walled]

set_side(tile, d, closed) ==
    CASE d = "North" -> [tile EXCEPT !.up = closed]
      [] d = "East"  -> [tile EXCEPT !.right = closed]
      [] d = "South" -> [tile EXCEPT !.down = closed]
      [] d = "West"  -> [tile EXCEPT !.left = closed]

\* get_sides: the four (direction, wall) pairs, here as a function of the direction.
get_sides(tile) ==
    [d \in Direction |->
        CASE d = "North" -> tile.up
          [] d = "East"  -> tile.right
          [] d = "South" -> tile.down
          [] d = "West"  -> tile.left]

----------------------------------------------------------------------------
\* Maze (lines 57-218)

Cells(sz) == (0..(sz[1] - 1)) \X (0..(sz[2] - 1))

Maze_new(sz, walled) == [p \in Cells(sz) |-> Tile_new(walled)]

\* get_tile / get_mut_tile return Some exactly for the indices inside the array.
has_tile(ts, pos) == pos \in DOMAIN ts

Contains(seq, e) == \E i \in 1..Len(seq) : seq[i] = e

\* invalid_directions with the arms of the column test exchanged.
invalid_directions_swapped(sz, pos) ==
    (IF pos[1] = 0 THEN <<"East">>
     ELSE IF pos[1] = get_max_pos(sz)[1] THEN <<"West">> ELSE <<>>)
    \o
    (IF pos[2] = 0 THEN <<"North">>
     ELSE IF pos[2] = get_max_pos(sz)[2] THEN <<"South">> ELSE <<>>)

\* The `invalid` vector of get_valid_directions (lines 111-123).
invalid_directions(sz, pos) ==
    (IF pos[1] = 0 THEN <<"West">>
     ELSE IF pos[1] = get_max_pos(sz)[1] THEN <<"East">> ELSE <<>>)
    \o
    (IF pos[2] = 0 THEN <<"North">>
     ELSE IF pos[2] = get_max_pos(sz)[2] THEN <<"South">> ELSE <<>>)

\* get_valid_directions without the test of the explored cells.
get_valid_directions_unexplored(sz, pos, expl) ==
    LET invalid == invalid_directions(sz, pos)
        keep(d) == ~Contains(invalid, d)
    IN  SelectSeq(DirectionIter, keep)

get_valid_directions(sz, pos, expl) ==
    LET invalid == invalid_directions(sz, pos)
        keep(d) == ~(Contains(invalid, d) \/ Contains(expl, translate(pos, d)))
    IN  SelectSeq(DirectionIter, keep)

\* translate is evaluated only when `invalid.contains` is false (short-circuit ||).
valid_directions_calls(sz, pos) ==
    {<<pos, d>> : d \in {e \in Direction : ~Contains(invalid_directions(sz, pos), e)}}

\* get_valid_moves that looks up pos itself, not its neighbour, in explored.
get_valid_moves_self(ts, pos, expl) ==
    LET walled == get_sides(ts[pos])
        keep(d) == ~(walled[d] \/ Contains(expl, pos))
    IN  SelectSeq(DirectionIter, keep)

\* get_valid_moves (lines 140-164): the sides of the tile that are not walled and
\* whose neighbour is not explored, in Direction::iter() order.
get_valid_moves(ts, pos, expl) ==
    LET walled == get_sides(ts[pos])
        keep(d) == ~(walled[d] \/ Contains(expl, translate(pos, d)))
    IN  SelectSeq(DirectionIter, keep)

\* translate is evaluated only for the sides that are not walled (short-circuit ||).
valid_moves_calls(ts, pos) ==
    {<<pos, d>> : d \in {e \in Direction : ~get_sides(ts[pos])[e]}}

\* solve_maze without the call of dedup.
dedup_none(seq) == seq

\* Vec::dedup (line 200): drops every element equal to the one before it.
RECURSIVE dedup(_)
dedup(seq) ==
    IF Len(seq) <= 1 THEN seq
    ELSE LET front == dedup(SubSeq(seq, 1, Len(seq) - 1))
         IN  IF seq[Len(seq)] = seq[Len(seq) - 1] THEN front
             ELSE Append(front, seq[Len(seq)])

\* solve_maze without the push of lines 185-187.
push_never(p, wasPopped, pos) == p

\* After a backtrack the position popped off the path is pushed back before the
\* next advance (lines 185-187).
push_after_pop(p, wasPopped, pos) == IF wasPopped THEN Append(p, pos) ELSE p

to_display_pos(pos) == <<pos[1] * 2 + 1, pos[2] * 2 + 1>>

----------------------------------------------------------------------------
\* Vector, Rectangle (lines 310-426)

Vector_new(origin, direction, magnitude) ==
    [origin |-> origin, direction |-> direction, magnitude |-> magnitude]

signum(x) == IF x > 0 THEN 1 ELSE IF x < 0 THEN -1 ELSE 0

abs(x) == IF x < 0 THEN -x ELSE x

\* new_from_points that makes a vector of one cell out of two equal points.
new_from_points_cell(origin, end) ==
    LET magnitude == <<end[1] - origin[1], end[2] - origin[2]>>
        unit == <<signum(magnitude[1]), signum(magnitude[2])>>
        len == abs(magnitude[1]) + abs(magnitude[2]) + 1
    IN  CASE unit = <<0, -1>> -> [ok |-> TRUE, vector |-> Vector_new(origin, "North", len)]
          [] unit = <<1, 0>>  -> [ok |-> TRUE, vector |-> Vector_new(origin, "East", len)]
          [] unit = <<0, 1>>  -> [ok |-> TRUE, vector |-> Vector_new(origin, "South", len)]
          [] unit = <<-1, 0>> -> [ok |-> TRUE, vector |-> Vector_new(origin, "West", len)]
          [] unit = <<0, 0>>  -> [ok |-> TRUE, vector |-> Vector_new(origin, "North", len)]
          [] OTHER -> [ok |-> FALSE, vector |-> Vector_new(origin, "North", 0)]

\* new_from_points: Ok(vector) or Err(InvalidInput).
new_from_points(origin, end) ==
    LET magnitude == <<end[1] - origin[1], end[2] - origin[2]>>
        unit == <<signum(magnitude[1]), signum(magnitude[2])>>
        len == abs(magnitude[1]) + abs(magnitude[2]) + 1
    IN  CASE unit = <<0, -1>> -> [ok |-> TRUE, vector |-> Vector_new(origin, "North", len)]
          [] unit = <<1, 0>>  -> [ok |-> TRUE, vector |-> Vector_new(origin, "East", len)]
          [] unit = <<0, 1>>  -> [ok |-> TRUE, vector |-> Vector_new(origin, "South", len)]
          [] unit = <<-1, 0>> -> [ok |-> TRUE, vector |-> Vector_new(origin, "West", len)]
          [] OTHER -> [ok |-> FALSE, vector |-> Vector_new(origin, "North", 0)]

\* get_end that adds the whole magnitude.
get_end_long(v) ==
    LET origin == v.origin
        magnitude == v.magnitude
    IN  CASE v.direction = "North" -> <<origin[1], origin[2] - magnitude>>
          [] v.direction = "East"  -> <<origin[1] + magnitude, origin[2]>>
          [] v.direction = "South" -> <<origin[1], origin[2] + magnitude>>
          [] v.direction = "West"  -> <<origin[1] - magnitude, origin[2]>>

get_end(v) ==
    LET origin == v.origin
        magnitude == v.magnitude - 1
    IN  CASE v.direction = "North" -> <<origin[1], origin[2] - magnitude>>
          [] v.direction = "East"  -> <<origin[1] + magnitude, origin[2]>>
          [] v.direction = "South" -> <<origin[1], origin[2] + magnitude>>
          [] v.direction = "West"  -> <<origin[1] - magnitude, origin[2]>>

\* Rectangle::get_vectors: the four edges, in the order of the returned array.
get_vectors(origin, sz) ==
    LET right == Vector_new(origin, "East", sz[1])
        down == Vector_new(origin, "South", sz[2])
    IN  <<right, down,
          Vector_new(get_end(down), "East", sz[1]),
          Vector_new(get_end(right), "South", sz[2])>>

----------------------------------------------------------------------------
\* Display (lines 428-559).  pixels maps the position <<column, row>> to the
\* character at pixels[[row, column]].

Display_new(origin, sz) ==
    [origin |-> origin,
     size |-> sz,
     pixels |-> [p \in (0..(sz[1] - 1)) \X (0..(sz[2] - 1)) |-> EMPTY_CHAR]]

new_from_maze(origin, mazesize) ==
    Display_new(origin, <<mazesize[1] * 2 + 1, mazesize[2] * 2 + 1>>)

\* The cells of loops that only run from the origin up to the end.
line_cells_ascending(line) ==
    LET o == line.origin
        e == get_end(line)
    IN  IF get_axis(line.direction) = 0
        THEN {<<i, o[2]>> : i \in o[1]..e[1]}
        ELSE {<<o[1], i>> : i \in o[2]..e[2]}

\* The buffer cells the loops of draw_line write (lines 470-497).
line_cells(line) ==
    LET o == line.origin
        e == get_end(line)
    IN  IF get_axis(line.direction) = 0
        THEN {<<i, o[2]>> : i \in (IF e[1] > o[1] THEN o[1]..e[1] ELSE e[1]..o[1])}
        ELSE {<<o[1], i>> : i \in (IF e[2] > o[2] THEN o[2]..e[2] ELSE e[2]..o[2])}

\* draw_line panics on an index outside the buffer.
line_fits(d, line) == line_cells(line) \subseteq DOMAIN d.pixels

\* Writes symbol into the given cells of the buffer.  (The cells are bound by a
\* quantifier so that they are computed once, not once per pixel.)
draw_cells(d, cells, symbol) ==
    CHOOSE r \in {[d EXCEPT !.pixels = [p \in DOMAIN d.pixels |->
                                         IF p \in cs THEN symbol ELSE d.pixels[p]]] :
                  cs \in {cells}} : TRUE

draw_line(d, line, symbol) == draw_cells(d, line_cells(line), symbol)

Range(seq) == {seq[i] : i \in 1..Len(seq)}

\* draw_rect: the four edges, all with the same symbol.
draw_rect(d, origin, sz, symbol) ==
    draw_cells(d, UNION {line_cells(v) : v \in Range(get_vectors(origin, sz))}, symbol)

\* A wall segment of one cell, the corner only.
wall_vector_corner(pos, direction) ==
    LET perpendicular == get_perpendiculars(direction)[1]
    IN  Vector_new(translate(translate(to_display_pos(pos), direction), perpendicular),
                   get_opposite(perpendicular), 1)

\* The wall segment draw_maze draws for a walled side of the tile at pos (lines 526-533).
wall_vector(pos, direction) ==
    LET perpendicular == get_perpendiculars(direction)[1]
    IN  Vector_new(translate(translate(to_display_pos(pos), direction), perpendicular),
                   get_opposite(perpendicular), 3)

\* The segments of all walled sides of the maze (lines 519-538).
wall_vectors(ts) ==
    {wall_vector(pos, d) : <<pos, d>> \in
        {pd \in (DOMAIN ts) \X Direction : get_sides(ts[pd[1]])[pd[2]]}}

\* The translate calls of draw_maze (line 530).
draw_maze_calls(ts) ==
    UNION {{<<to_display_pos(pd[1]), pd[2]>>,
            <<translate(to_display_pos(pd[1]), pd[2]), get_perpendiculars(pd[2])[1]>>} :
           pd \in {qd \in (DOMAIN ts) \X Direction : get_sides(ts[qd[1]])[qd[2]]}}

\* The lines draw_maze draws on a canvas of the right size.
draw_maze_lines(d, ts) ==
    Range(get_vectors(Position_new, d.size)) \cup wall_vectors(ts)

\* draw_maze that compares only the width of the canvas with the required size.
draw_maze_width(d, mazesize, ts) ==
    IF d.size[1] = new_from_maze(d.origin, mazesize).size[1]
    THEN [ok |-> TRUE,
          display |-> draw_cells(d, UNION {line_cells(v) : v \in draw_maze_lines(d, ts)},
                                 BLOCK_CHAR)]
    ELSE [ok |-> FALSE, display |-> d]

\* draw_maze (lines 507-544): Ok with the maze drawn, or Err(InvalidInput) with
\* the canvas untouched.  Every line is drawn with BLOCK_CHAR, so the order of
\* the writes does not show in the result.
draw_maze(d, mazesize, ts) ==
    IF d.size = new_from_maze(d.origin, mazesize).size
    THEN [ok |-> TRUE,
          display |-> draw_cells(d, UNION {line_cells(v) : v \in draw_maze_lines(d, ts)},
                                 BLOCK_CHAR)]
    ELSE [ok |-> FALSE, display |-> d]

\* The vectors draw_path builds, one per adjacent pair of the path (line 548).
path_vectors(p) == [i \in 1..(Len(p) - 1) |-> new_from_points(p[i], p[i + 1])]

Min(S) == CHOOSE m \in S : \A n \in S : m <= n

\* draw_path that passes over a pair that is not a vector and returns Ok.
draw_path_lenient(d, p, symbol) ==
    LET vs == path_vectors(p)
        bad == {i \in DOMAIN vs : vs[i].ok /\ ~line_fits(d, vs[i].vector)}
        stop == IF bad = {} THEN Len(vs) + 1 ELSE Min(bad)
    IN  [ok |-> TRUE,
         fits |-> bad = {},
         display |-> draw_cells(d, UNION {line_cells(vs[i].vector) :
                                             i \in {j \in 1..(stop - 1) : vs[j].ok}},
                                symbol)]

\* draw_path (lines 546-554): the pairs in order.  The first pair that is not a
\* vector returns Err (ok = FALSE), the first line that leaves the buffer panics
\* (fits = FALSE); both leave the lines drawn before it.  Every line is drawn
\* with the same symbol.
draw_path(d, p, symbol) ==
    LET vs == path_vectors(p)
        bad == {i \in DOMAIN vs : ~vs[i].ok \/ ~line_fits(d, vs[i].vector)}
        stop == IF bad = {} THEN Len(vs) + 1 ELSE Min(bad)
    IN  [ok |-> bad = {} \/ vs[stop].ok,
         fits |-> bad = {} \/ ~vs[stop].ok,
         display |-> draw_cells(d, UNION {line_cells(vs[i].vector) : i \in 1..(stop - 1)},
                                symbol)]

draw_point(d, pos, symbol) == draw_cells(d, {pos}, symbol)

\* The path left in the coordinates of the maze.
to_display_path_raw(p) == [i \in 1..Len(p) |-> p[i]]

\* The path mapped through to_display_pos (lines 582-584).
to_display_path(p) == [i \in 1..Len(p) |-> to_display_pos(p[i])]

----------------------------------------------------------------------------
NoDisplay == [origin |-> <<0, 0>>, size |-> <<0, 0>>, pixels |-> <<>>]

Init ==
    /\ size \in Sizes
    /\ tiles = Maze_new(size, TRUE)
    /\ pc = "generate_maze"
    /\ explored = <<Position_new>>
    /\ stack = <<Position_new>>
    /\ currentpos = Position_new
    /\ path = <<>>
    /\ popped = FALSE
    /\ result = <<>>
    /\ display = NoDisplay
    /\ err = "none"
    /\ calls = {}
    /\ input = "none"
    /\ output = "none"

\* A panic: the process stops where it is, with the state it had.
Abort(reason) == err' = reason /\ pc' = pc

\* The outcomes of a step whose translate calls are cs: a debug build panics on
\* an underflow, a release build wraps.
Outcomes(cs) == IF \E c \in cs : Underflows(c) THEN {"panic", "wrap"} ELSE {"ok"}

\* The loop condition of generate_maze (lines 77-80).
GenLoopCond == ~(Len(explored) # 1 /\ currentpos = <<0, 0>>)

\* One iteration of the loop of generate_maze (lines 81-106).
GenStep ==
    /\ pc = "generate_maze"
    /\ err = "none"
    /\ GenLoopCond
    /\ LET dirs == get_valid_directions(size, currentpos, explored)
           vcalls == valid_directions_calls(size, currentpos)
       IN  IF dirs = <<>>
           THEN /\ calls' = vcalls
                /\ \E o \in Outcomes(vcalls) :
                     IF o = "panic"
                     THEN /\ Abort("overflow")
                          /\ UNCHANGED <<tiles, explored, stack, currentpos>>
                     ELSE IF stack = <<>>
                     THEN /\ Abort("pop_empty")
                          /\ UNCHANGED <<tiles, explored, stack, currentpos>>
                     ELSE /\ currentpos' = stack[Len(stack)]
                          /\ stack' = SubSeq(stack, 1, Len(stack) - 1)
                          /\ UNCHANGED <<tiles, explored, pc, err>>
           ELSE \E i \in 1..Len(dirs) :
                  LET pick == dirs[i]
                      newpos == translate(currentpos, pick)
                      cs == vcalls \cup {<<currentpos, pick>>}
                      opened == [tiles EXCEPT ![currentpos] = set_side(@, pick, FALSE)]
                  IN  /\ calls' = cs
                      /\ \E o \in Outcomes(cs) :
                           IF o = "panic"
                           THEN /\ Abort("overflow")
                                /\ UNCHANGED <<tiles, explored, stack, currentpos>>
                           ELSE IF ~has_tile(tiles, currentpos)
                           THEN /\ Abort("no_tile")
                                /\ UNCHANGED <<tiles, explored, stack, currentpos>>
                           ELSE IF ~has_tile(tiles, newpos)
                           THEN /\ Abort("no_tile")
                                /\ tiles' = opened
                                /\ currentpos' = newpos
                                /\ UNCHANGED <<explored, stack>>
                           ELSE /\ tiles' = [opened EXCEPT ![newpos] =
                                                set_side(@, get_opposite(pick), FALSE)]
                                /\ currentpos' = newpos
                                /\ stack' = Append(stack, newpos)
                                /\ explored' = Append(explored, newpos)
                                /\ UNCHANGED <<pc, err>>
    /\ UNCHANGED <<input, output, size, path, popped, result, display>>

\* The loop of generate_maze exits and the call returns to main (line 575).
GenReturn ==
    /\ pc = "generate_maze"
    /\ err = "none"
    /\ ~GenLoopCond
    /\ pc' = "draw_maze"
    /\ calls' = {}
    /\ UNCHANGED <<input, output, size, tiles, explored, stack, currentpos, path, popped, result,
                   display, err>>

\* main builds the display from the maze and draws the maze on it (lines 577-578).
DrawMaze ==
    /\ pc = "draw_maze"
    /\ err = "none"
    /\ LET d == new_from_maze(<<1, 1>>, size)
           r == draw_maze(d, size, tiles)
           cs == draw_maze_calls(tiles)
       IN  /\ calls' = cs
           /\ \E o \in Outcomes(cs) :
                IF o = "panic"
                THEN Abort("overflow") /\ display' = d
                ELSE IF ~r.ok
                THEN Abort("invalid_input") /\ display' = r.display
                ELSE IF \E v \in draw_maze_lines(d, tiles) : ~line_fits(d, v)
                THEN Abort("index") /\ display' = d
                ELSE /\ display' = r.display
                     /\ pc' = "solve_call"
                     /\ UNCHANGED err
    /\ UNCHANGED <<input, output, size, tiles, explored, stack, currentpos, path, popped, result>>

\* solve_maze is called (line 581) and sets up its locals (lines 167-175).
SolveCall ==
    /\ pc = "solve_call"
    /\ err = "none"
    /\ pc' = "solve_maze"
    /\ explored' = <<Position_new>>
    /\ path' = <<Position_new>>
    /\ currentpos' = Position_new
    /\ popped' = FALSE
    /\ calls' = {}
    /\ UNCHANGED <<input, output, size, tiles, stack, result, display, err>>

\* One iteration of the loop of solve_maze (lines 177-197).
SolveStep ==
    /\ pc = "solve_maze"
    /\ err = "none"
    /\ currentpos # get_max_pos(size)
    /\ IF ~has_tile(tiles, currentpos)
       THEN /\ Abort("no_tile")
            /\ calls' = {}
            /\ UNCHANGED <<explored, path, currentpos, popped>>
       ELSE LET moves == get_valid_moves(tiles, currentpos, explored)
                mcalls == valid_moves_calls(tiles, currentpos)
            IN  IF moves = <<>>
                THEN /\ calls' = mcalls
                     /\ \E o \in Outcomes(mcalls) :
                          IF o = "panic"
                          THEN /\ Abort("overflow")
                               /\ UNCHANGED <<explored, path, currentpos, popped>>
                          ELSE IF path = <<>>
                          THEN /\ Abort("pop_empty")
                               /\ UNCHANGED <<explored, path, currentpos, popped>>
                          ELSE /\ currentpos' = path[Len(path)]
                               /\ path' = SubSeq(path, 1, Len(path) - 1)
                               /\ popped' = TRUE
                               /\ explored' = Append(explored, path[Len(path)])
                               /\ UNCHANGED <<pc, err>>
                ELSE \E i \in 1..Len(moves) :
                       LET direction == moves[i]
                           newpos == translate(currentpos, direction)
                           cs == mcalls \cup {<<currentpos, direction>>}
                           pushed == push_after_pop(path, popped, currentpos)
                       IN  /\ calls' = cs
                           /\ \E o \in Outcomes(cs) :
                                IF o = "panic"
                                THEN /\ Abort("overflow")
                                     /\ UNCHANGED <<explored, path, currentpos, popped>>
                                ELSE /\ currentpos' = newpos
                                     /\ path' = Append(pushed, newpos)
                                     /\ explored' = Append(explored, newpos)
                                     /\ UNCHANGED <<pc, err, popped>>
    /\ UNCHANGED <<input, output, size, tiles, stack, result, display>>

\* The loop of solve_maze exits; the path is deduplicated and returned (lines 200-201).
SolveReturn ==
    /\ pc = "solve_maze"
    /\ err = "none"
    /\ currentpos = get_max_pos(size)
    /\ result' = dedup(path)
    /\ pc' = "draw_path"
    /\ calls' = {}
    /\ UNCHANGED <<input, output, size, tiles, explored, stack, currentpos, path, popped, display, err>>

\* main draws the solver's path, mapped to display positions (lines 580-586).
DrawPath ==
    /\ pc = "draw_path"
    /\ err = "none"
    /\ \E r \in {draw_path(display, to_display_path(result), POINT_CHAR)} :
           /\ display' = r.display
           /\ IF ~r.fits THEN Abort("index")
              ELSE IF ~r.ok THEN Abort("invalid_input")
              ELSE pc' = "draw_point" /\ UNCHANGED err
    /\ calls' = {}
    /\ UNCHANGED <<input, output, size, tiles, explored, stack, currentpos, path, popped, result>>

\* main marks the entrance and the exit and prints the canvas (lines 588-596).
DrawPoints ==
    /\ pc = "draw_point"
    /\ err = "none"
    /\ LET exit == translate(get_max_pos(display.size), "West")
           cs == {<<get_max_pos(display.size), "West">>}
       IN  /\ calls' = cs
           /\ \E o \in Outcomes(cs) :
                IF o = "panic"
                THEN Abort("overflow") /\ UNCHANGED display
                ELSE IF ~({<<1, 0>>, exit} \subseteq DOMAIN display.pixels)
                THEN Abort("index") /\ UNCHANGED display
                ELSE /\ display' = draw_point(draw_point(display, <<1, 0>>, POINT_CHAR),
                                              exit, POINT_CHAR)
                     /\ pc' = "done"
                     /\ UNCHANGED err
    /\ UNCHANGED <<input, output, size, tiles, explored, stack, currentpos, path, popped, result>>

Next ==
    \/ GenStep
    \/ GenReturn
    \/ DrawMaze
    \/ SolveCall
    \/ SolveStep
    \/ SolveReturn
    \/ DrawPath
    \/ DrawPoints

Spec == Init /\ [][Next]_vars

\* main runs on one thread to completion: a step that can be taken is taken.
FairSpec == Spec /\ WF_vars(Next)

----------------------------------------------------------------------------
\* The functions of the renderer called on their own, on arguments drawn from
\* bounded sets.  The variables of main() keep the values of Idle.

Idle ==
    /\ explored = <<>>
    /\ stack = <<>>
    /\ currentpos = Position_new
    /\ path = <<>>
    /\ popped = FALSE
    /\ result = <<>>
    /\ err = "none"
    /\ calls = {}

\* The canvas sizes around the sizes the mazes need.
CanvasSizes == (1..(2 * MaxW + 2)) \X (1..(2 * MaxH + 2))

\* A canvas of Display::new (lines 434-443) whose pixels all hold fill.
Canvas(origin, sz, fill) ==
    [Display_new(origin, sz) EXCEPT
        !.pixels = [p \in DOMAIN Display_new(origin, sz).pixels |-> fill]]

\* Display::draw_maze(maze) on a canvas of any size.
CanvasInit ==
    /\ size \in Sizes
    /\ \E walled \in BOOLEAN : tiles = Maze_new(size, walled)
    /\ \E sz \in CanvasSizes : \E fill \in {EMPTY_CHAR, POINT_CHAR} :
         display = Canvas(Position_new, sz, fill)
    /\ input = display
    /\ output = "none"
    /\ pc = "call"
    /\ Idle

\* The call of draw_maze returns (lines 507-544).
DrawMazeCall ==
    /\ pc = "call"
    /\ \E r \in {draw_maze(display, size, tiles)} :
         IF r.ok /\ \E v \in draw_maze_lines(display, tiles) : ~line_fits(display, v)
         THEN output' = "panic" /\ UNCHANGED display
         ELSE /\ display' = r.display
              /\ output' = IF r.ok THEN "Ok" ELSE "Err(InvalidInput)"
    /\ pc' = "returned"
    /\ UNCHANGED <<size, tiles, explored, stack, currentpos, path, popped, result,
                   err, calls, input>>

CanvasNext == DrawMazeCall

CanvasSpec == CanvasInit /\ [][CanvasNext]_vars

\* The positions handed to the functions of Vector and to draw_line.
Points == (0..MaxCoord) \X (0..MaxCoord)

\* No maze takes part in the call.
NoMaze == size = <<0, 0>> /\ tiles = <<>>

\* Vector::new_from_points(a, b) followed by get_end() on the vector it returned.
VectorInit ==
    /\ input \in Points \X Points
    /\ output = "none"
    /\ pc = "call"
    /\ display = NoDisplay
    /\ NoMaze
    /\ Idle

\* new_from_points returns (lines 325-356).
NewFromPointsCall ==
    /\ pc = "call"
    /\ output' = new_from_points(input[1], input[2])
    /\ pc' = IF output'.ok THEN "built" ELSE "returned"
    /\ UNCHANGED <<input, size, tiles, explored, stack, currentpos, path, popped,
                   result, display, err, calls>>

\* get_end on the vector returns (lines 358-381); the subtraction of a vector
\* that leaves the usize range panics or wraps.
GetEndCall ==
    /\ pc = "built"
    /\ \E e \in {get_end(output.vector)} :
         IF e[1] < 0 \/ e[2] < 0
         THEN \E o \in {"panic", "wrap"} :
                  output' = [ok |-> TRUE, vector |-> output.vector, end |-> o]
         ELSE output' = [ok |-> TRUE, vector |-> output.vector, end |-> e]
    /\ pc' = "returned"
    /\ UNCHANGED <<input, size, tiles, explored, stack, currentpos, path, popped,
                   result, display, err, calls>>

VectorNext == NewFromPointsCall \/ GetEndCall

VectorSpec == VectorInit /\ [][VectorNext]_vars

\* Display::draw_line of the vector from a to b on one canvas, and of the vector
\* from b to a on a second canvas that starts out the same.  input keeps the
\* arguments and the canvas as it was, output is the second canvas.
LineInit ==
    /\ \E a \in Points, b \in Points, fill \in {EMPTY_CHAR, BLOCK_CHAR} :
         /\ new_from_points(a, b).ok
         /\ display = Canvas(Position_new, <<MaxCoord + 1, MaxCoord + 1>>, fill)
         /\ input = [a |-> a, b |-> b, symbol |-> POINT_CHAR, canvas |-> display]
    /\ output = display
    /\ pc = "call"
    /\ NoMaze
    /\ Idle

\* draw_line of the vector from a to b returns (lines 467-499).
DrawLineCall ==
    /\ pc = "call"
    /\ \E line \in {new_from_points(input.a, input.b).vector} :
         IF line_fits(display, line)
         THEN display' = draw_line(display, line, input.symbol) /\ pc' = "drawn"
         ELSE UNCHANGED display /\ pc' = "panic"
    /\ UNCHANGED <<input, output, size, tiles, explored, stack, currentpos, path,
                   popped, result, err, calls>>

\* draw_line of the vector from b to a returns, on the second canvas.
DrawLineBack ==
    /\ pc = "drawn"
    /\ \E line \in {new_from_points(input.b, input.a).vector} :
         IF line_fits(output, line)
         THEN output' = draw_line(output, line, input.symbol) /\ pc' = "returned"
         ELSE UNCHANGED output /\ pc' = "panic"
    /\ UNCHANGED <<input, display, size, tiles, explored, stack, currentpos, path,
                   popped, result, err, calls>>

LineNext == DrawLineCall \/ DrawLineBack

LineSpec == LineInit /\ [][LineNext]_vars

\* The positions of the paths handed to draw_path, and the paths.
PathPoints == (0..MaxPathCoord) \X (0..MaxPathCoord)

Paths == UNION {[1..n -> PathPoints] : n \in 0..MaxPathLen}

\* Display::draw_path(path, symbol) on a blank canvas that holds the positions
\* of all rows but the last.  input keeps the arguments and the canvas as it was.
PathInit ==
    /\ display = Display_new(Position_new, <<MaxPathCoord + 1, MaxPathCoord>>)
    /\ \E p \in Paths : input = [path |-> p, symbol |-> POINT_CHAR, canvas |-> display]
    /\ output = "none"
    /\ pc = "call"
    /\ NoMaze
    /\ Idle

\* The call of draw_path returns (lines 546-554) or panics in draw_line.
DrawPathCall ==
    /\ pc = "call"
    /\ \E r \in {draw_path(display, input.path, input.symbol)} :
         IF ~r.fits
         THEN output' = "panic" /\ display' = r.display
         ELSE /\ display' = r.display
              /\ output' = IF r.ok THEN "Ok" ELSE "Err(InvalidInput)"
    /\ pc' = "returned"
    /\ UNCHANGED <<input, size, tiles, explored, stack, currentpos, path, popped,
                   result, err, calls>>

PathNext == DrawPathCall

PathSpec == PathInit /\ [][PathNext]_vars

----------------------------------------------------------------------------
\* Vocabulary of the properties.  It is stated on the coordinates and the wall
\* flags directly, not through the operators of the model.

Origin == <<0, 0>>

Grid == (0..(size[1] - 1)) \X (0..(size[2] - 1))

\* The position next to a on its side d.
Beside(a, d) ==
    CASE d = "North" -> <<a[1], a[2] - 1>>
      [] d = "East"  -> <<a[1] + 1, a[2]>>
      [] d = "South" -> <<a[1], a[2] + 1>>
      [] d = "West"  -> <<a[1] - 1, a[2]>>

\* The side of the tile at a that faces d is walled.
Wall(a, d) ==
    CASE d = "North" -> tiles[a].up
      [] d = "East"  -> tiles[a].right
      [] d = "South" -> tiles[a].down
      [] d = "West"  -> tiles[a].left

Facing(d) ==
    CASE d = "North" -> "South"
      [] d = "East"  -> "West"
      [] d = "South" -> "North"
      [] d = "West"  -> "East"

\* The open sides of the maze, as <<cell, direction>>.
OpenSides == {ad \in Grid \X Direction : ~Wall(ad[1], ad[2])}

\* The open connections: pairs of cells of the grid with an open side between them.
Connections ==
    {{ad[1], Beside(ad[1], ad[2])} : ad \in {od \in OpenSides : Beside(od[1], od[2]) \in Grid}}

RECURSIVE Flood(_)
Flood(S) ==
    LET more == S \cup {Beside(ad[1], ad[2]) :
                          ad \in {od \in OpenSides : od[1] \in S /\ Beside(od[1], od[2]) \in Grid}}
    IN  IF more = S THEN S ELSE Flood(more)

\* The cells a flood fill from a reaches over open sides.
Reach(a) == Flood({a})

\* The number of connected components among the cells of S.
RECURSIVE Components(_)
Components(S) ==
    IF S = {} THEN 0
    ELSE 1 + Components(S \ Reach(CHOOSE a \in S : TRUE))

\* A graph without cycle has as many edges as vertices less components.
Acyclic ==
    Cardinality(Connections) + Components(Grid) = Cardinality(Grid)

Generating == pc = "generate_maze"

Generated == pc # "generate_maze"

Aborted == err # "none"

\* C1: for every size W x H >= 1 x 1, generate_maze finishes, and then exactly
\* W*H-1 walls have been removed as matched pairs and every cell is reachable
\* from (0,0) over open sides.
C1_PerfectMaze ==
    /\ ~(Generating /\ Aborted)
    /\ Generated =>
         /\ Cardinality(Connections) = size[1] * size[2] - 1
         /\ Cardinality(OpenSides) = 2 * (size[1] * size[2] - 1)
         /\ \A ad \in OpenSides :
              Beside(ad[1], ad[2]) \in Grid /\ ~Wall(Beside(ad[1], ad[2]), Facing(ad[2]))
         /\ Reach(Origin) = Grid

\* C2: in every state during and after generate_maze the open connections form
\* no cycle, and after generation every two cells are joined by exactly one
\* simple path (the graph is also connected).
C2_NoCycle ==
    /\ Acyclic
    /\ (Generated /\ ~Aborted) => Reach(Origin) = Grid

\* Generation has finished on a maze with a junction (a cell with three open sides).
C2_Witness ==
    /\ pc = "draw_maze"
    /\ \E a \in Grid : Cardinality({d \in Direction : ~Wall(a, d)}) >= 3

\* C3: for every pair of grid-adjacent cells, the side of the one facing the
\* other is open if and only if the side of the other facing it is open.
C3_WallSymmetry ==
    \A a \in Grid :
        /\ <<a[1] + 1, a[2]>> \in Grid => (tiles[a].right = tiles[<<a[1] + 1, a[2]>>].left)
        /\ <<a[1], a[2] + 1>> \in Grid => (tiles[a].down = tiles[<<a[1], a[2] + 1>>].up)

\* generate_maze has carved walls in both axes.
C3_Witness ==
    /\ Generating
    /\ \E a \in Grid : ~tiles[a].right
    /\ \E a \in Grid : ~tiles[a].down

\* C4: get_valid_directions never returns a direction that leaves the grid, and
\* every side of a cell that faces outside the grid stays walled.
C4_BoundaryWalled ==
    /\ (Generating /\ ~Aborted) =>
         \A d \in Range(get_valid_directions(size, currentpos, explored)) :
             Beside(currentpos, d) \in Grid
    /\ \A a \in Grid : \A d \in Direction : Beside(a, d) \notin Grid => Wall(a, d)

\* C5: generate_maze terminates: its loop exits, with the stack empty and the
\* current position back at (0,0).
C5_GenTerminates == <>(pc = "draw_maze" /\ stack = <<>> /\ currentpos = Origin)

Goal == <<size[1] - 1, size[2] - 1>>

\* solve_maze has returned its path to main.
Solved == pc \in {"draw_path", "draw_point", "done"}

\* b is one unit from a along one axis and no wall stands between the two cells.
OpenStep(a, b) ==
    \E d \in Direction :
        /\ Beside(a, d) = b
        /\ a \in Grid /\ b \in Grid
        /\ ~Wall(a, d) /\ ~Wall(b, Facing(d))

\* C6: the path solve_maze returns starts at (0,0), ends at max_position, repeats
\* no position, and each consecutive pair is one unit apart along one axis with
\* no wall between the two cells.
C6_SolverPath ==
    Solved =>
        /\ Len(result) >= 1
        /\ result[1] = Origin
        /\ result[Len(result)] = Goal
        /\ \A i, j \in 1..Len(result) : i # j => result[i] # result[j]
        /\ \A i \in 1..(Len(result) - 1) : OpenStep(result[i], result[i + 1])

\* solve_maze returned a path of at least four cells after it had backtracked.
C6_Witness == pc = "draw_path" /\ popped /\ Len(result) >= 4

\* C7: solve_maze terminates (the current position comes to equal the goal and
\* the call returns), and the backtracking pop is never executed on an empty path.
C7_SolverTerminates ==
    /\ [](~(pc = "solve_maze" /\ err = "pop_empty"))
    /\ ((pc = "solve_maze") ~> (pc = "draw_path"))

\* solve_maze reached the goal after at least two backtracking pops.
C7_Witness ==
    /\ pc = "solve_maze"
    /\ currentpos = Goal
    /\ popped
    /\ Len(explored) >= Len(dedup(path)) + 3

\* The simple paths from a to b over open sides that avoid the cells of seen.
RECURSIVE SimplePaths(_, _, _)
SimplePaths(a, b, seen) ==
    IF a = b THEN {<<a>>}
    ELSE UNION {{<<a>> \o p : p \in SimplePaths(n, b, seen \cup {a})} :
                n \in {c \in Grid \ (seen \cup {a}) : OpenStep(a, c)}}

\* C8: whatever the random choices of solve_maze, the path it returns is the
\* unique simple path from (0,0) to max_position of the maze.
C8_SamePath ==
    Solved => SimplePaths(Origin, Goal, {}) = {result}

\* solve_maze returned after it backtracked and pushed a position twice.
C8_Witness ==
    /\ pc = "draw_point"
    /\ popped
    /\ Len(path) > Len(result)

\* The 3x3 canvas with only its outer rectangle drawn.
OuterRectangle3 ==
    [p \in (0..2) \X (0..2) |-> IF p = <<1, 1>> THEN EMPTY_CHAR ELSE BLOCK_CHAR]

\* C9: on a 1x1 maze generate_maze returns without removing a wall and without
\* moving to or pushing a neighbour, solve_maze returns <<(0,0)>> and draw_maze
\* renders only the outer rectangle of the 3x3 canvas.
C9_OneByOne ==
    size = <<1, 1>> =>
        /\ ~Aborted
        /\ tiles = [p \in {Origin} |->
                      [up |-> TRUE, right |-> TRUE, down |-> TRUE, left |-> TRUE]]
        /\ Generating => (currentpos = Origin /\ explored = <<Origin>>)
        /\ pc = "solve_call" => display.pixels = OuterRectangle3
        /\ Solved => result = <<Origin>>

\* C10: no call of Position.translate takes a coordinate below zero: each call
\* translate(North) has row >= 1 and each call translate(West) has column >= 1.
C10_NoUnderflow ==
    \A c \in calls :
        /\ c[2] = "North" => c[1][2] >= 1
        /\ c[2] = "West" => c[1][1] >= 1

\* A step called translate(North) and translate(West), both away from the edge.
C10_Witness ==
    /\ \E c \in calls : c[2] = "North" /\ c[1][2] >= 1
    /\ \E c \in calls : c[2] = "West" /\ c[1][1] >= 1

\* C11: draw_maze on a canvas whose size is not (2*W+1, 2*H+1) returns
\* InvalidInput and leaves every pixel as it was; on a canvas of that size it
\* returns success.
C11_SizeMismatch ==
    pc = "returned" =>
        IF display.size = <<2 * size[1] + 1, 2 * size[2] + 1>>
        THEN output = "Ok"
        ELSE output = "Err(InvalidInput)" /\ display = input

\* draw_maze was refused on a canvas that has the right width and the wrong height.
C11_Witness ==
    /\ pc = "returned"
    /\ output = "Err(InvalidInput)"
    /\ display.size[1] = 2 * size[1] + 1
    /\ display.size[2] > 2 * size[2] + 1

\* C12: new_from_points(a, b) fails when a and b differ in both coordinates;
\* for distinct a, b that differ in one coordinate it returns the vector with
\* origin a, the direction of the sign of the delta and magnitude Manhattan
\* distance + 1, and get_end() of that vector is b.
C12_VectorRoundTrip ==
    pc \in {"built", "returned"} =>
        LET a == input[1]
            b == input[2]
            dx == b[1] - a[1]
            dy == b[2] - a[2]
        IN  /\ (dx # 0 /\ dy # 0) => ~output.ok
            /\ (a # b /\ (dx = 0 \/ dy = 0)) =>
                   /\ output.ok
                   /\ output.vector.origin = a
                   /\ output.vector.direction =
                          (IF dx > 0 THEN "East" ELSE IF dx < 0 THEN "West"
                           ELSE IF dy > 0 THEN "South" ELSE "North")
                   /\ output.vector.magnitude = abs(dx) + abs(dy) + 1
                   /\ pc = "returned" => output.end = b

\* get_end has returned for a vector that points West over more than two cells.
C12_Witness ==
    /\ pc = "returned"
    /\ output.ok
    /\ output.vector.direction = "West"
    /\ output.vector.magnitude > 2
    /\ output.end = input[2]

\* The cells between two aligned positions, both included.
Span(a, b) ==
    {p \in Points :
        /\ Min({a[1], b[1]}) <= p[1] /\ p[1] <= Min({a[1], b[1]}) + abs(a[1] - b[1])
        /\ Min({a[2], b[2]}) <= p[2] /\ p[2] <= Min({a[2], b[2]}) + abs(a[2] - b[2])}

\* C13: draw_line writes the symbol into exactly the cells of the span of the
\* vector, both endpoints included, and the buffer is the same whether the
\* vector was built from a to b or from b to a.
C13_LineSpan ==
    /\ pc \in {"drawn", "returned"} =>
           \A p \in DOMAIN display.pixels :
               display.pixels[p] = IF p \in Span(input.a, input.b)
                                   THEN input.symbol ELSE input.canvas.pixels[p]
    /\ pc = "returned" => output = display
    /\ pc # "panic"

\* Both lines are drawn for a vector whose end has the smaller coordinate.
C13_Witness ==
    /\ pc = "returned"
    /\ input.a[1] > input.b[1] + 1
    /\ display.pixels[input.b] = input.symbol
    /\ display.pixels[input.a] = input.symbol
    /\ \E p \in DOMAIN display.pixels : display.pixels[p] = BLOCK_CHAR

\* The buffer cell at which the cell a of the maze is rendered.
Rendered(a) == <<2 * a[1] + 1, 2 * a[2] + 1>>

\* The canvas holds the maze and nothing else.
MazeDrawn == pc \in {"solve_call", "solve_maze"}

\* C14: after draw_maze on a blank canvas of the right size, for every pair of
\* adjacent cells the buffer cell midway between their rendered positions holds
\* the wall symbol if and only if the wall between the two cells is set, and
\* the rendered position of every cell is blank.
C14_RenderRoundTrip ==
    MazeDrawn =>
        /\ \A a \in Grid : display.pixels[Rendered(a)] = EMPTY_CHAR
        /\ \A a \in Grid : \A d \in Direction :
               Beside(a, d) \in Grid =>
                   (display.pixels[Beside(Rendered(a), d)] = BLOCK_CHAR <=> Wall(a, d))

\* A drawn maze with a walled and an open pair of adjacent cells.
C14_Witness ==
    /\ MazeDrawn
    /\ \E a \in Grid : \E d \in Direction :
           /\ Beside(a, d) \in Grid /\ Wall(a, d)
           /\ display.pixels[Beside(Rendered(a), d)] = BLOCK_CHAR
    /\ \E a \in Grid : \E d \in Direction :
           /\ Beside(a, d) \in Grid /\ ~Wall(a, d)
           /\ display.pixels[Beside(Rendered(a), d)] = EMPTY_CHAR

\* The pairs of positions that follow each other in the path of the call.
Pairs == {<<input.path[i], input.path[i + 1]>> : i \in 1..(Len(input.path) - 1)}

\* The two positions differ in both coordinates.
Oblique(ab) == ab[1][1] # ab[2][1] /\ ab[1][2] # ab[2][2]

\* Every position of the path is a cell of the canvas.
InCanvas == \A i \in 1..Len(input.path) : input.path[i] \in DOMAIN input.canvas.pixels

\* The canvas holds the inclusive segment of every pair, in the symbol, and is
\* as it was everywhere else.
SegmentsDrawn ==
    \A q \in DOMAIN display.pixels :
        display.pixels[q] = IF \E ab \in Pairs : q \in Span(ab[1], ab[2])
                            THEN input.symbol ELSE input.canvas.pixels[q]

\* C15 as stated: draw_path returns InvalidInput if a consecutive pair is not
\* axis-aligned, and otherwise returns success with the inclusive segment of
\* every pair drawn.
C15_AlignedOnly ==
    pc = "returned" =>
        IF \E ab \in Pairs : Oblique(ab)
        THEN output = "Err(InvalidInput)"
        ELSE output = "Ok" /\ SegmentsDrawn

\* C15: for a path inside the canvas, draw_path returns InvalidInput if a
\* consecutive pair differs in both coordinates or is the same position twice,
\* and otherwise returns success with the inclusive segment of every pair drawn.
C15_DistinctAligned ==
    (pc = "returned" /\ InCanvas) =>
        IF \E ab \in Pairs : Oblique(ab) \/ ab[1] = ab[2]
        THEN output = "Err(InvalidInput)"
        ELSE output = "Ok" /\ SegmentsDrawn

\* draw_path has drawn a path of two segments with a corner.
C15_Witness ==
    /\ pc = "returned"
    /\ InCanvas
    /\ output = "Ok"
    /\ Len(input.path) = 3
    /\ input.path[1][1] # input.path[3][1]
    /\ input.path[1][2] # input.path[3][2]
    /\ display.pixels[input.path[2]] = input.symbol

\* C16: for every size with W >= 2 and H >= 2 and all picks, generate_maze
\* never aborts: every position it holds is a tile of the grid, no tile is
\* missing and the stack is never popped when it is empty.
C16_NoAbort ==
    (size[1] >= 2 /\ size[2] >= 2) =>
        /\ ~(Generating /\ Aborted)
        /\ currentpos \in Grid
        /\ \A i \in 1..Len(explored) : explored[i] \in Grid
        /\ \A i \in 1..Len(stack) : stack[i] \in Grid

\* generate_maze has returned, on a grid of at least 2 x 2, with every cell
\* explored and the stack popped down to empty.
C16_Witness ==
    /\ size[1] >= 2 /\ size[2] >= 2
    /\ pc = "draw_maze"
    /\ stack = <<>>
    /\ Len(explored) = size[1] * size[2]

\* C17: in a full run, every buffer cell that draw_path writes lies inside the
\* canvas and was blank after draw_maze.
C17_PathOnBlank ==
    [][pc = "draw_path" =>
          /\ err' = "none"
          /\ \A q \in DOMAIN display.pixels :
                 display'.pixels[q] # display.pixels[q] => display.pixels[q] = EMPTY_CHAR]_vars

\* draw_path has drawn a path of at least three cells on a canvas with walls.
C17_Witness ==
    /\ pc = "draw_point"
    /\ Len(result) >= 3
    /\ \A i \in 1..Len(result) : display.pixels[Rendered(result[i])] = POINT_CHAR
    /\ \E a \in Grid : \E d \in Direction :
           Beside(a, d) \in Grid /\ display.pixels[Beside(Rendered(a), d)] = BLOCK_CHAR

\* C18: new_from_points(a, a) returns InvalidInput, so draw_path of the path
\* <<a, a>> returns InvalidInput and draw_path never succeeds on a path that
\* holds the same position twice in a row.
C18_RepeatedPoint ==
    pc = "returned" =>
        /\ (Len(input.path) = 2 /\ input.path[1] = input.path[2]) =>
               output = "Err(InvalidInput)"
        /\ (\E ab \in Pairs : ab[1] = ab[2]) => output # "Ok"

\* draw_path drew the first segment and then failed on a repeated position.
C18_Witness ==
    /\ pc = "returned"
    /\ Len(input.path) = 3
    /\ input.path[1] # input.path[2]
    /\ input.path[2] = input.path[3]
    /\ output = "Err(InvalidInput)"
    /\ display.pixels[input.path[1]] = input.symbol

====
